---- MODULE Spec2Model ----
(***************************************************************************)
(* A model of hourlies.py: the hourly timer thread (HourliesApp.timer_loop),*)
(* the Tk foreground handlers of HourliesApp and HourlyWorklogWindow, and   *)
(* the worklog folder they read and write.                                  *)
(*                                                                          *)
(* Strings (folder names, file names, entry texts) are sequences of        *)
(* character codes, so that startswith, endswith, strip and list.sort are   *)
(* the string operations of the source.  Wall-clock time is a count of     *)
(* ticks since 2025-01-01 00:00:00, SubPerSec ticks to the second.         *)
(***************************************************************************)
EXTENDS Integers, Sequences, FiniteSets, TLC

(***************************************************************************)
(* Bounds of the exploration.                                               *)
(***************************************************************************)
SubPerSec == 2
MaxWorkers == 2
MaxQueue == 1
MaxOrphans == 1
MaxFiles == 2
MaxHoursAhead == 0
MaxMinutesAhead == 1
MaxSeq == 3
MaxAdjusts == 1

VARIABLES
    now,              \* the wall clock, datetime.now()
    root,             \* the worklog folder: entry name -> "dir" | "file"
    files,            \* directory name -> (file name -> content)
    alive,            \* the process runs (root.mainloop() has not been quit)
    popup_at_minute,  \* config "popup_at_minute"
    day_folder,       \* HourliesApp.day_folder
    timer_active,     \* HourliesApp.timer_active
    workers,          \* the live threads running timer_loop, oldest first
    pending,          \* show_worklog_window calls queued by root.after
    worklog_window,   \* HourliesApp.worklog_window, a HourlyWorklogWindow
    orphans,          \* replaced HourlyWorklogWindow objects whose window is open
    adjusts,          \* the number of times the wall clock was set
    fired,            \* the trigger boundaries for which root.after was called
    call              \* one call of a function on drawn inputs, with its result

vars == <<now, root, files, alive, popup_at_minute, day_folder, timer_active,
          workers, pending, worklog_window, orphans, adjusts, fired, call>>

(***************************************************************************)
(* Strings.                                                                 *)
(***************************************************************************)
Digit(d) == 48 + d
Dot == <<46>>
Whitespace == {9, 10, 13, 32}
HourliesSuffix == <<46, 104, 111, 117, 114, 108, 105, 101, 115>>
TxtSuffix == <<46, 116, 120, 116>>

RECURSIVE Decimal(_)
Decimal(n) ==
    IF n < 10 THEN <<Digit(n)>> ELSE Decimal(n \div 10) \o <<Digit(n % 10)>>

RECURSIVE ZeroPad(_, _)
ZeroPad(s, width) ==
    IF Len(s) >= width THEN s ELSE ZeroPad(<<Digit(0)>> \o s, width)

StartsWith(s, prefix) ==
    /\ Len(prefix) <= Len(s)
    /\ SubSeq(s, 1, Len(prefix)) = prefix

EndsWith(s, suffix) ==
    /\ Len(suffix) <= Len(s)
    /\ SubSeq(s, Len(s) - Len(suffix) + 1, Len(s)) = suffix

RECURSIVE LexLess(_, _)
LexLess(s, t) ==
    IF t = <<>> THEN FALSE
    ELSE IF s = <<>> THEN TRUE
    ELSE IF Head(s) # Head(t) THEN Head(s) < Head(t)
    ELSE LexLess(Tail(s), Tail(t))

\* names.sort(); names[-1]
SortedLast(names) ==
    CHOOSE x \in names : \A y \in names : y = x \/ LexLess(y, x)

RECURSIVE LStrip(_)
LStrip(s) ==
    IF s # <<>> /\ Head(s) \in Whitespace THEN LStrip(Tail(s)) ELSE s

RECURSIVE RStrip(_)
RStrip(s) ==
    IF s # <<>> /\ s[Len(s)] \in Whitespace
    THEN RStrip(SubSeq(s, 1, Len(s) - 1)) ELSE s

Strip(s) == RStrip(LStrip(s))

(***************************************************************************)
(* Time.                                                                    *)
(***************************************************************************)
OneSecond == SubPerSec
OneMinute == 60 * OneSecond
OneHour == 60 * OneMinute
OneDay == 24 * OneHour

At(day, hour, minute, second) ==
    day * OneDay + hour * OneHour + minute * OneMinute + second * OneSecond

DayOf(t) == t \div OneDay
HourOf(t) == (t % OneDay) \div OneHour
MinuteOf(t) == (t % OneHour) \div OneMinute

\* strftime("%Y%m%d"); the model's days all lie in January 2025
FormatDate(t) ==
    ZeroPad(Decimal(2025), 4) \o ZeroPad(Decimal(1), 2)
        \o ZeroPad(Decimal(DayOf(t) + 1), 2)

\* strftime("%Y%m%d%H%M")
FormatMinute(t) ==
    FormatDate(t) \o ZeroPad(Decimal(HourOf(t)), 2)
        \o ZeroPad(Decimal(MinuteOf(t)), 2)

\* now.replace(minute=m, second=0, microsecond=0)
ReplaceMinute(t, m) == (t - (t % OneHour)) + m * OneMinute

\* a slip in line 346: "now > next_hour"
NextHourStrict(t, m) ==
    LET next_hour == ReplaceMinute(t, m)
    IN  IF t > next_hour THEN next_hour + OneHour ELSE next_hour

\* timer_loop, lines 342-347: the instant the loop sleeps until
NextHour(t, m) ==
    LET next_hour == ReplaceMinute(t, m)
    IN  IF t >= next_hour THEN next_hour + OneHour ELSE next_hour

\* timer_loop, line 349
WaitSeconds(t, m) == NextHour(t, m) - t

(***************************************************************************)
(* The store: start_new_day's folder resolution, get_last_entry and         *)
(* save_entry's file name.  r is the worklog folder's listing, f the files  *)
(* of its directories.                                                       *)
(***************************************************************************)
\* f"{day_folder_base}.{folder_num:03d}"
FolderName(today, folder_num) == today \o Dot \o ZeroPad(Decimal(folder_num), 3)

\* a slip: the loop of lines 307-309 left out
NextFolderNumUnchecked(r, today, folder_num) == folder_num

\* start_new_day, lines 305-309: the first number whose name does not exist
RECURSIVE NextFolderNum(_, _, _)
NextFolderNum(r, today, folder_num) ==
    IF FolderName(today, folder_num) \in DOMAIN r
    THEN NextFolderNum(r, today, folder_num + 1)
    ELSE folder_num

\* start_new_day, lines 312-313
ExistingFolders(r, today) ==
    {name \in DOMAIN r : StartsWith(name, today) /\ r[name] = "dir"}

\* a slip in line 317: existing_folders[0]
AdoptFirstFolder(existing_folders) ==
    CHOOSE x \in existing_folders :
        \A y \in existing_folders : y = x \/ LexLess(x, y)

\* start_new_day, lines 315-317: the folder adopted among the existing ones
AdoptFolder(existing_folders) == SortedLast(existing_folders)

\* a slip: lines 312-317 left out, the next free number always taken
ResolveDayFolderAlwaysNew(r, t) ==
    FolderName(FormatDate(t), NextFolderNum(r, FormatDate(t), 1))

\* start_new_day, lines 301-319: the value left in self.day_folder
ResolveDayFolder(r, t) ==
    LET today == FormatDate(t)
        existing_folders == ExistingFolders(r, today)
    IN  IF existing_folders # {}
        THEN AdoptFolder(existing_folders)
        ELSE FolderName(today, NextFolderNum(r, today, 1))

\* os.makedirs(name, exist_ok=True) on the listing and on the files
MakeDirsRoot(r, name) == IF name \in DOMAIN r THEN r ELSE r @@ (name :> "dir")
MakeDirsFiles(r, f, name) == IF name \in DOMAIN r THEN f ELSE f @@ (name :> <<>>)

\* start_new_day, lines 315-319: the listing after the call
ResolveRoot(r, t) ==
    IF ExistingFolders(r, FormatDate(t)) # {}
    THEN r
    ELSE MakeDirsRoot(r, ResolveDayFolder(r, t))

ResolveFiles(r, f, t) ==
    IF ExistingFolders(r, FormatDate(t)) # {}
    THEN f
    ELSE MakeDirsFiles(r, f, ResolveDayFolder(r, t))

\* os.linesep of the platform the program is written for ("A Windows
\* application", line 4)
LineSep == <<13, 10>>

\* f.write(content) on a file opened in text mode with the default newline,
\* line 223-224: every "\n" is written as linesep
RECURSIVE WriteText(_, _)
WriteText(content, linesep) ==
    IF content = <<>> THEN <<>>
    ELSE (IF Head(content) = 10 THEN linesep ELSE <<Head(content)>>)
             \o WriteText(Tail(content), linesep)

\* f.read() on a file opened in text mode with the default newline, line
\* 171-172: "\r\n" and "\r" are read as "\n"
RECURSIVE ReadText(_)
ReadText(bytes) ==
    IF bytes = <<>> THEN <<>>
    ELSE IF Head(bytes) = 13
    THEN <<10>> \o ReadText(IF Len(bytes) >= 2 /\ bytes[2] = 10
                            THEN Tail(Tail(bytes)) ELSE Tail(bytes))
    ELSE <<Head(bytes)>> \o ReadText(Tail(bytes))

\* An optional text: <<>> is None, <<s>> is the text s.
None == <<>>
Some(s) == <<s>>
\* "if last_entry:" is false for None and for the empty text
Truthy(opt) == opt # None /\ opt[1] # <<>>

\* a slip in line 163: the suffix test left out
HourliesFilesUnfiltered(f, folder) == DOMAIN f[folder]

\* get_last_entry, line 163
HourliesFiles(f, folder) ==
    {name \in DOMAIN f[folder] : EndsWith(name, HourliesSuffix)}

\* get_last_entry, lines 158-174; readable: open() and read() raise nothing
GetLastEntry(r, f, folder, readable) ==
    IF folder \notin DOMAIN r THEN None
    ELSE IF HourliesFiles(f, folder) = {} THEN None
    ELSE IF readable
    THEN Some(ReadText(f[folder][SortedLast(HourliesFiles(f, folder))]))
    ELSE None

\* save_entry, lines 209-210
EntryFilename(t) == FormatMinute(t) \o HourliesSuffix

\* save_entry, lines 214-219: the minute_offset the loop ends with
RECURSIVE MinuteOffset(_, _, _)
MinuteOffset(names, t, minute_offset) ==
    IF EntryFilename(t + minute_offset * OneMinute) \in names
    THEN MinuteOffset(names, t, minute_offset + 1)
    ELSE minute_offset

\* a slip: the duplicate loop of lines 214-219 left out
SaveFilenameNoLoop(names, t) == EntryFilename(t)

\* save_entry, lines 208-219: the name the entry is written to
SaveFilename(names, t) ==
    EntryFilename(t + MinuteOffset(names, t, 0) * OneMinute)

\* the number of files in the store
RECURSIVE FileCount(_)
FileCount(f) ==
    IF DOMAIN f = {} THEN 0
    ELSE LET d == CHOOSE x \in DOMAIN f : TRUE
         IN  Cardinality(DOMAIN f[d])
                 + FileCount([x \in (DOMAIN f) \ {d} |-> f[x]])

\* a slip: the write replaces the folder's files by the new one
WriteFileTruncating(f, folder, name, content) ==
    [f EXCEPT ![folder] = (name :> content)]

\* open(filepath, 'w') and f.write(content), line 223-224
WriteFile(f, folder, name, content) ==
    [f EXCEPT ![folder] =
        [n \in (DOMAIN f[folder]) \cup {name} |->
            IF n = name THEN content ELSE f[folder][n]]]

\* what a write that raised can leave behind: nothing (open failed), or the
\* file created by open with a proper prefix of the content
PartialWrites(content) ==
    {SubSeq(content, 1, k) : k \in 0 .. Len(content) - 1}

(***************************************************************************)
(* HourlyWorklogWindow objects.                                             *)
(***************************************************************************)
\* HourlyWorklogWindow.__init__, lines 91-96
NewWorklogWindow(folder) ==
    [day_folder |-> folder, callback |-> "none", window |-> FALSE, text |-> <<>>]

\* HourlyWorklogWindow.show, lines 98-156: an open window is lifted, a closed
\* one is built with an empty text field
Show(w) ==
    IF w.window THEN w ELSE [w EXCEPT !.window = TRUE, !.text = <<>>]

\* self.window.destroy(); self.window = None
Destroyed(w) == [w EXCEPT !.window = FALSE, !.text = <<>>]

\* The windows on screen: 0 is self.worklog_window, i > 0 is orphans[i].
OpenWindows ==
    (IF worklog_window.window THEN {0} ELSE {}) \cup (1 .. Len(orphans))

WindowObject(i) == IF i = 0 THEN worklog_window ELSE orphans[i]

RemoveAt(seq, i) == SubSeq(seq, 1, i - 1) \o SubSeq(seq, i + 1, Len(seq))

\* window i's object becomes w; a replaced object whose window is gone is
\* garbage
SetWindowObject(i, w) ==
    IF i = 0
    THEN /\ worklog_window' = w
         /\ orphans' = orphans
    ELSE /\ worklog_window' = worklog_window
         /\ orphans' = IF w.window THEN [orphans EXCEPT ![i] = w]
                       ELSE RemoveAt(orphans, i)

(***************************************************************************)
(* The timer thread, HourliesApp.timer_loop.  A thread is at "while" (line  *)
(* 341), in "sleep" (line 352) or at "after" (line 356).                    *)
(***************************************************************************)
NewThread == [pc |-> "while", next_hour |-> 0, remaining |-> 0]

\* lines 341-352: test timer_active; read the clock, compute the wait and
\* start to sleep, or leave the loop and end the thread
TimerLoopSleep(w) ==
    /\ alive
    /\ w \in 1 .. Len(workers)
    /\ workers[w].pc = "while"
    /\ workers' = IF timer_active
                  THEN [workers EXCEPT ![w] =
                           [pc |-> "sleep",
                            next_hour |-> NextHour(now, popup_at_minute),
                            remaining |-> WaitSeconds(now, popup_at_minute)]]
                  ELSE RemoveAt(workers, w)
    /\ UNCHANGED <<now, root, files, alive, popup_at_minute, day_folder,
                   timer_active, pending, worklog_window, orphans, adjusts, fired, call>>

\* lines 352-354: time.sleep returns once the duration has elapsed, and
\* timer_active is tested
TimerLoopWake(w) ==
    /\ alive
    /\ w \in 1 .. Len(workers)
    /\ workers[w].pc = "sleep"
    /\ workers[w].remaining = 0
    /\ workers' = IF timer_active
                  THEN [workers EXCEPT ![w].pc = "after"]
                  ELSE [workers EXCEPT ![w] = NewThread]
    /\ UNCHANGED <<now, root, files, alive, popup_at_minute, day_folder,
                   timer_active, pending, worklog_window, orphans, adjusts, fired, call>>

\* a slip in line 356: the thread calls self.show_worklog_window() itself
TimerLoopShows(w) ==
    /\ alive
    /\ w \in 1 .. Len(workers)
    /\ workers[w].pc = "after"
    /\ worklog_window' = Show(worklog_window)
    /\ fired' = fired \cup {workers[w].next_hour}
    /\ workers' = [workers EXCEPT ![w] = NewThread]
    /\ UNCHANGED <<now, root, files, alive, popup_at_minute, day_folder,
                   timer_active, pending, orphans, adjusts, call>>

\* line 356: self.root.after(0, self.show_worklog_window)
TimerLoopAfter(w) ==
    /\ alive
    /\ w \in 1 .. Len(workers)
    /\ workers[w].pc = "after"
    /\ pending < MaxQueue
    /\ pending' = pending + 1
    /\ fired' = fired \cup {workers[w].next_hour}
    /\ workers' = [workers EXCEPT ![w] = NewThread]
    /\ UNCHANGED <<now, root, files, alive, popup_at_minute, day_folder,
                   timer_active, worklog_window, orphans, adjusts, call>>

(***************************************************************************)
(* The clock.                                                               *)
(***************************************************************************)
StartTimes == {At(0, 23, 59, 59)}

\* the instants the exploration visits
InWindow(t) ==
    \E s \in StartTimes, h \in 0 .. MaxHoursAhead, m \in 0 .. MaxMinutesAhead :
        t = s + h * OneHour + m * OneMinute

Elapse(thread, d) ==
    IF thread.pc = "sleep"
    THEN [thread EXCEPT !.remaining = IF @ > d THEN @ - d ELSE 0]
    ELSE thread

\* time passes: the wall clock and every sleep advance together
Tick(d) ==
    /\ InWindow(now + d)
    /\ now' = now + d
    /\ workers' = [w \in 1 .. Len(workers) |-> Elapse(workers[w], d)]
    /\ UNCHANGED <<root, files, alive, popup_at_minute, day_folder,
                   timer_active, pending, worklog_window, orphans, adjusts, fired, call>>

\* the wall clock is set (an adjustment, or a suspend the sleep does not
\* count): the sleeps in progress keep their remaining duration
ClockAdjust(delta) ==
    /\ adjusts < MaxAdjusts
    /\ InWindow(now + delta)
    /\ now' = now + delta
    /\ adjusts' = adjusts + 1
    /\ UNCHANGED <<root, files, alive, popup_at_minute, day_folder,
                   timer_active, workers, pending, worklog_window, orphans,
                   fired, call>>

(***************************************************************************)
(* The foreground: the Tk event loop runs one handler at a time.            *)
(***************************************************************************)
\* a slip: the test of lines 332-333 left out
StartTimerWorkersAlways(active, threads) == Append(threads, NewThread)

\* start_timer, lines 330-337
StartTimerWorkers(active, threads) ==
    IF active THEN threads ELSE Append(threads, NewThread)

\* HourliesApp.__init__ .. start_new_day in a fresh process, lines 242-260
Boot ==
    /\ alive' = TRUE
    /\ root' = ResolveRoot(root, now)
    /\ files' = ResolveFiles(root, files, now)
    /\ day_folder' = ResolveDayFolder(root, now)
    /\ timer_active' = TRUE
    /\ workers' = StartTimerWorkers(FALSE, <<>>)
    /\ pending' = 0
    /\ worklog_window' = NewWorklogWindow(ResolveDayFolder(root, now))
    /\ orphans' = <<>>
    /\ fired' = {}
    /\ UNCHANGED <<now, popup_at_minute, adjusts, call>>

\* the process ends: root.quit() ends mainloop, the daemon thread dies
Quit ==
    /\ alive' = FALSE
    /\ timer_active' = FALSE
    /\ workers' = <<>>
    /\ pending' = 0
    /\ worklog_window' = NewWorklogWindow(day_folder)
    /\ orphans' = <<>>
    /\ fired' = {}

\* menu "Start a new day": start_new_day, lines 294-328
StartNewDay ==
    /\ alive
    /\ ~timer_active => Len(workers) < MaxWorkers
    /\ worklog_window.window => Len(orphans) < MaxOrphans
    /\ root' = ResolveRoot(root, now)
    /\ files' = ResolveFiles(root, files, now)
    /\ day_folder' = ResolveDayFolder(root, now)
    /\ timer_active' = TRUE
    /\ workers' = StartTimerWorkers(timer_active, workers)
    /\ worklog_window' = NewWorklogWindow(ResolveDayFolder(root, now))
    /\ orphans' = IF worklog_window.window
                  THEN Append(orphans, worklog_window) ELSE orphans
    /\ UNCHANGED <<now, alive, popup_at_minute, pending, adjusts, fired, call>>

\* the queued call: show_worklog_window, lines 358-361
ShowWorklogWindow ==
    /\ alive
    /\ pending > 0
    /\ pending' = pending - 1
    /\ worklog_window' = Show(worklog_window)
    /\ UNCHANGED <<now, root, files, alive, popup_at_minute, day_folder,
                   timer_active, workers, orphans, adjusts, fired, call>>

\* menu "End of day": end_of_day, lines 363-377
EndOfDay ==
    /\ alive
    /\ IF day_folder = <<>>
       THEN UNCHANGED <<timer_active, worklog_window>>
       ELSE /\ timer_active' = FALSE
            /\ worklog_window' =
                   Show([worklog_window EXCEPT !.callback = "close_app"])
    /\ UNCHANGED <<now, root, files, alive, popup_at_minute, day_folder,
                   workers, pending, orphans, adjusts, fired, call>>

\* menu "Close": close_app, lines 384-387
CloseApp ==
    /\ alive
    /\ Quit
    /\ UNCHANGED <<now, root, files, popup_at_minute, day_folder, adjusts, call>>

\* menu "Restart": restart_app, lines 379-382, then __init__ in the new image
RestartApp ==
    /\ alive
    /\ Boot

(***************************************************************************)
(* The handlers of an open entry window.                                    *)
(***************************************************************************)
TypedTexts == {<<32, 97, 10>>}

\* the user edits the text field
TypeText(i, txt) ==
    /\ alive
    /\ i \in OpenWindows
    /\ txt # WindowObject(i).text
    /\ SetWindowObject(i, [WindowObject(i) EXCEPT !.text = txt])
    /\ UNCHANGED <<now, root, files, alive, popup_at_minute, day_folder,
                   timer_active, workers, pending, adjusts, fired, call>>

\* button "Same as last hour": same_as_last_hour, lines 176-183
SameAsLastHour(i, readable) ==
    /\ alive
    /\ i \in OpenWindows
    /\ LET w == WindowObject(i)
           last_entry == GetLastEntry(root, files, w.day_folder, readable)
       IN  IF Truthy(last_entry)
           THEN SetWindowObject(i, [w EXCEPT !.text = last_entry[1]])
           ELSE UNCHANGED <<worklog_window, orphans>>
    /\ UNCHANGED <<now, root, files, alive, popup_at_minute, day_folder,
                   timer_active, workers, pending, adjusts, fired, call>>

\* the window's close button: on_close, lines 235-238
OnClose(i) ==
    /\ alive
    /\ i \in OpenWindows
    /\ SetWindowObject(i, Destroyed(WindowObject(i)))
    /\ UNCHANGED <<now, root, files, alive, popup_at_minute, day_folder,
                   timer_active, workers, pending, adjusts, fired, call>>

\* a slip: the test "if not content" of line 189 left out
SaveContentUnchecked(w, result, readable) == Some(Strip(w.text))

\* save_entry, lines 187-202: the content to save, None when the handler
\* returns without saving; result is the answer to "Use same as last hour?"
SaveContent(w, result, readable) ==
    IF Strip(w.text) # <<>> THEN Some(Strip(w.text))
    ELSE IF result /\ Truthy(GetLastEntry(root, files, w.day_folder, readable))
    THEN GetLastEntry(root, files, w.day_folder, readable)
    ELSE None

\* save_entry, lines 226-230: the file is written
AfterSave(i) ==
    IF WindowObject(i).callback = "close_app"
    THEN /\ Quit
         /\ UNCHANGED day_folder
    ELSE /\ SetWindowObject(i, Destroyed(WindowObject(i)))
         /\ UNCHANGED <<alive, day_folder, timer_active, workers, pending,
                        fired>>

\* a slip: lines 226-230 moved into a finally clause
SaveFailedCloses(i, f1, folder, filename, content) ==
    /\ \/ files' = f1
       \/ \E part \in PartialWrites(content) :
             files' = WriteFile(f1, folder, filename, part)
    /\ AfterSave(i)

\* save_entry, lines 222-224 raising and lines 232-233: open or write failed,
\* the error is shown and the handler returns
SaveFailed(i, f1, folder, filename, content) ==
    /\ \/ files' = f1
       \/ \E part \in PartialWrites(content) :
             files' = WriteFile(f1, folder, filename, part)
    /\ UNCHANGED <<alive, day_folder, timer_active, workers, pending,
                   worklog_window, orphans, fired>>

\* button "Save" and Control-Return: save_entry, lines 185-233
SaveEntry(i, result, readable, written) ==
    /\ alive
    /\ i \in OpenWindows
    /\ LET w == WindowObject(i)
           content == SaveContent(w, result, readable)
           r1 == MakeDirsRoot(root, w.day_folder)
           f1 == MakeDirsFiles(root, files, w.day_folder)
           filename == SaveFilename(DOMAIN f1[w.day_folder], now)
       IN  IF content = None
           THEN UNCHANGED <<root, files, alive, day_folder, timer_active,
                            workers, pending, worklog_window, orphans, fired>>
           ELSE /\ FileCount(f1) < MaxFiles
                /\ root' = r1
                /\ IF written
                   THEN /\ files' = WriteFile(f1, w.day_folder, filename,
                                              WriteText(content[1], LineSep))
                        /\ AfterSave(i)
                   ELSE SaveFailed(i, f1, w.day_folder, filename,
                                   WriteText(content[1], LineSep))
    /\ UNCHANGED <<now, popup_at_minute, adjusts, call>>

(***************************************************************************)
(* The worklog folder found when the program is first started: folders and *)
(* stray files left for the first day, with entries of earlier runs.        *)
(***************************************************************************)
Day0 == FormatDate(At(0, 0, 0, 0))

\* an entry of an earlier run of the same day
OldEntries == (EntryFilename(At(0, 12, 0, 0)) :> <<99>>)

\* an entry saved in the minute the program is started in
FreshEntry == (EntryFilename(At(0, 23, 59, 0)) :> <<98>>)

PreStores ==
    { [root |-> <<>>, files |-> <<>>],
      [root |-> (FolderName(Day0, 1) :> "file"), files |-> <<>>],
      [root |-> (FolderName(Day0, 1) :> "dir"),
       files |-> (FolderName(Day0, 1) :> FreshEntry)],
      [root |-> (FolderName(Day0, 1) :> "dir") @@ (FolderName(Day0, 2) :> "dir"),
       files |-> (FolderName(Day0, 1) :> <<>>)
                     @@ (FolderName(Day0, 2) :> OldEntries)] }

NoCall == [op |-> "none"]

PopupMinutes == {0}

\* the program's state once HourliesApp() is constructed on the store pre at
\* time t, lines 242-260 and 394
Constructed(pre, t) ==
    /\ now = t
    /\ root = ResolveRoot(pre.root, t)
    /\ files = ResolveFiles(pre.root, pre.files, t)
    /\ day_folder = ResolveDayFolder(pre.root, t)
    /\ alive = TRUE
    /\ timer_active = TRUE
    /\ workers = StartTimerWorkers(FALSE, <<>>)
    /\ pending = 0
    /\ worklog_window = NewWorklogWindow(day_folder)
    /\ orphans = <<>>
    /\ adjusts = 0
    /\ fired = {}

Init ==
    /\ popup_at_minute \in PopupMinutes
    /\ \E pre \in PreStores, t \in StartTimes : Constructed(pre, t)
    /\ call = NoCall

ClockSteps == {OneMinute, OneHour}
ClockAdjustments == {0 - OneMinute, 0 - OneHour}

\* the timer thread and the handlers that start it, stop it and run its
\* queued calls
NextScheduler ==
    \/ \E w \in 1 .. MaxWorkers : TimerLoopSleep(w)
    \/ \E w \in 1 .. MaxWorkers : TimerLoopWake(w)
    \/ \E w \in 1 .. MaxWorkers : TimerLoopAfter(w)
    \/ \E d \in ClockSteps : Tick(d)
    \/ StartNewDay
    \/ ShowWorklogWindow
    \/ EndOfDay
    \/ CloseApp
    \/ RestartApp
    \/ \E i \in 0 .. MaxOrphans : OnClose(i)

\* the handlers of the text field and its buttons
NextEntry ==
    \/ \E i \in 0 .. MaxOrphans, txt \in TypedTexts : TypeText(i, txt)
    \/ \E i \in 0 .. MaxOrphans, readable \in BOOLEAN :
          SameAsLastHour(i, readable)
    \/ \E i \in 0 .. MaxOrphans, result \in BOOLEAN, readable \in BOOLEAN,
          written \in BOOLEAN : SaveEntry(i, result, readable, written)

Next == NextScheduler \/ NextEntry

\* the program under a wall clock that runs true
Spec == Init /\ [][Next]_vars

\* the scheduler under a wall clock that is also set back
NextClockSet == NextScheduler \/ \E delta \in ClockAdjustments : ClockAdjust(delta)

SpecClockSet == Init /\ [][NextClockSet]_vars

(***************************************************************************)
(* Single calls of the functions on drawn inputs.  The program's state is  *)
(* that of a first start on an empty worklog folder and does not move.      *)
(***************************************************************************)
Parked ==
    /\ popup_at_minute = 0
    /\ \E t \in StartTimes : Constructed([root |-> <<>>, files |-> <<>>], t)

ParkedVars == <<now, root, files, alive, popup_at_minute, day_folder,
                timer_active, workers, pending, worklog_window, orphans,
                adjusts, fired>>

\* --- timer_loop's computation, lines 342-349 ---
TimerInstants ==
    {At(0, h, mi, sec) + sub :
        h \in {10, 23}, mi \in 0 .. 59, sec \in {0, 5, 59},
        sub \in 0 .. SubPerSec - 1}

InitTimer ==
    /\ Parked
    /\ \E t \in TimerInstants, m \in 0 .. 59 :
          call = [op |-> "timer_loop", t |-> t, m |-> m, done |-> FALSE,
                  next_hour |-> 0, wait_seconds |-> 0]

CallTimerLoop ==
    /\ call.op = "timer_loop"
    /\ ~call.done
    /\ call' = [call EXCEPT !.done = TRUE,
                            !.next_hour = NextHour(call.t, call.m),
                            !.wait_seconds = WaitSeconds(call.t, call.m)]
    /\ UNCHANGED ParkedVars

SpecTimer == InitTimer /\ [][CallTimerLoop]_vars

\* --- get_last_entry, lines 158-174 ---
Restrict(f, S) == [x \in S |-> f[x]]

LastCandidates ==
    (EntryFilename(At(0, 12, 0, 0)) :> <<97>>)
        @@ (EntryFilename(At(0, 13, 0, 0)) :> <<98>>)
        @@ ((FormatMinute(At(0, 14, 0, 0)) \o TxtSuffix) :> <<122>>)
        @@ ((EntryFilename(At(0, 13, 0, 0)) \o <<126>>) :> <<121>>)
        @@ ((<<110>> \o HourliesSuffix) :> <<>>)
        @@ (HourliesSuffix :> <<99>>)

LastFolder == FolderName(Day0, 1)

InitLast ==
    /\ Parked
    /\ \E S \in SUBSET DOMAIN LastCandidates, exists \in BOOLEAN,
          readable \in BOOLEAN :
          call = [op |-> "get_last_entry",
                  r |-> IF exists THEN (LastFolder :> "dir") ELSE <<>>,
                  f |-> IF exists
                        THEN (LastFolder :> Restrict(LastCandidates, S))
                        ELSE <<>>,
                  readable |-> readable, done |-> FALSE, ret |-> None]

CallGetLastEntry ==
    /\ call.op = "get_last_entry"
    /\ ~call.done
    /\ call' = [call EXCEPT !.done = TRUE,
                            !.ret = GetLastEntry(call.r, call.f, LastFolder,
                                                 call.readable)]
    /\ UNCHANGED ParkedVars

SpecLast == InitLast /\ [][CallGetLastEntry]_vars

\* --- start_new_day's folder resolution, lines 296-319, called twice ---
ResolveNames ==
    {FolderName(Day0, n) : n \in 1 .. MaxSeq}
        \cup {FolderName(FormatDate(At(1, 0, 0, 0)), 1)}

ResolveListings ==
    UNION {[present -> {"dir", "file"}] : present \in SUBSET ResolveNames}

ResolveInstants == {At(0, 23, 59, 59), At(1, 0, 0, 59)}

InitResolve ==
    /\ Parked
    /\ \E r \in ResolveListings, t \in ResolveInstants :
          call = [op |-> "start_new_day", t |-> t, listings |-> <<r>>,
                  returned |-> <<>>]

CallStartNewDay ==
    /\ call.op = "start_new_day"
    /\ Len(call.returned) < 2
    /\ LET r == call.listings[Len(call.listings)]
       IN  call' = [call EXCEPT
                       !.returned = Append(@, ResolveDayFolder(r, call.t)),
                       !.listings = Append(@, ResolveRoot(r, call.t))]
    /\ UNCHANGED ParkedVars

SpecResolve == InitResolve /\ [][CallStartNewDay]_vars

\* --- start_timer, lines 330-337, on a drawn scheduler state ---
ThreadStates ==
    {NewThread}
        \cup {[pc |-> "sleep", next_hour |-> At(1, 0, 0, 0), remaining |-> d] :
                 d \in 0 .. SubPerSec}
        \cup {[pc |-> "after", next_hour |-> At(1, 0, 0, 0), remaining |-> 0]}

ThreadLists ==
    UNION {[1 .. n -> ThreadStates] : n \in 0 .. MaxWorkers}

InitStart ==
    /\ popup_at_minute = 0
    /\ \E t \in StartTimes :
          /\ now = t
          /\ root = ResolveRoot(<<>>, t)
          /\ files = ResolveFiles(<<>>, <<>>, t)
          /\ day_folder = ResolveDayFolder(<<>>, t)
    /\ alive = TRUE
    /\ timer_active \in BOOLEAN
    /\ workers \in ThreadLists
    /\ pending = 0
    /\ worklog_window = NewWorklogWindow(day_folder)
    /\ orphans = <<>>
    /\ adjusts = 0
    /\ fired = {}
    /\ call = [op |-> "start_timer", done |-> FALSE, timer_active |-> FALSE,
               workers |-> <<>>]

CallStartTimer ==
    /\ call.op = "start_timer"
    /\ ~call.done
    /\ timer_active' = TRUE
    /\ workers' = StartTimerWorkers(timer_active, workers)
    /\ call' = [call EXCEPT !.done = TRUE, !.timer_active = timer_active,
                            !.workers = workers]
    /\ UNCHANGED <<now, root, files, alive, popup_at_minute, day_folder,
                   pending, worklog_window, orphans, adjusts, fired>>

SpecStart == InitStart /\ [][CallStartTimer]_vars

\* --- the write of save_entry, lines 222-224, and a read of the file as
\* get_last_entry reads it, lines 170-172 ---
MaxContent == 4

ContentChars == {97, 98, 10, 13, 32}

\* what save_entry can hold in content at line 222: not empty, stripped
Contents ==
    {c \in UNION {[1 .. n -> ContentChars] : n \in 1 .. MaxContent} :
        Strip(c) = c}

LineSeps == {<<10>>, <<13, 10>>}

InitRoundTrip ==
    /\ Parked
    /\ \E content \in Contents, linesep \in LineSeps :
          call = [op |-> "round_trip", content |-> content,
                  linesep |-> linesep, done |-> FALSE, bytes |-> <<>>,
                  read |-> <<>>]

CallWriteRead ==
    /\ call.op = "round_trip"
    /\ ~call.done
    /\ call' = [call EXCEPT
                   !.done = TRUE,
                   !.bytes = WriteText(call.content, call.linesep),
                   !.read = ReadText(WriteText(call.content, call.linesep))]
    /\ UNCHANGED ParkedVars

SpecRoundTrip == InitRoundTrip /\ [][CallWriteRead]_vars

\* --- saves into one day folder as the clock runs on: save_entry, lines
\* 204-224, each followed by get_last_entry, lines 158-174 ---
MaxSaves == 3
MaxClockAhead == 2

OrderContents == {<<97>>, <<98, 13, 98>>}

OrderRoot == (LastFolder :> "dir")

InitSaves ==
    /\ Parked
    /\ \E entries \in {<<>>, OldEntries} :
          call = [op |-> "saves", t |-> At(0, 23, 58, 59), ahead |-> 0,
                  f |-> (LastFolder :> entries), saved |-> None,
                  before |-> {}, name |-> <<>>]

\* one more save: the name is resolved and the content written, or the write
\* fails and leaves nothing or a partial file
CallSaveEntry(content, written) ==
    /\ call.op = "saves"
    /\ Cardinality(DOMAIN call.f[LastFolder]) < MaxSaves
    /\ LET filename == SaveFilename(DOMAIN call.f[LastFolder], call.t)
           bytes == WriteText(content, LineSep)
       IN  IF written
           THEN call' = [call EXCEPT
                            !.f = WriteFile(@, LastFolder, filename, bytes),
                            !.saved = Some(content),
                            !.before = DOMAIN call.f[LastFolder],
                            !.name = filename]
           ELSE \E part \in PartialWrites(bytes) :
                    call' = [call EXCEPT
                                !.f = WriteFile(@, LastFolder, filename, part),
                                !.saved = None]
    /\ UNCHANGED ParkedVars

\* the clock runs on between saves
CallClock ==
    /\ call.op = "saves"
    /\ call.ahead < MaxClockAhead
    /\ call' = [call EXCEPT !.t = @ + OneMinute, !.ahead = @ + 1,
                            !.saved = None]
    /\ UNCHANGED ParkedVars

NextSaves ==
    \/ \E content \in OrderContents, written \in BOOLEAN :
          CallSaveEntry(content, written)
    \/ CallClock

SpecSaves == InitSaves /\ [][NextSaves]_vars

(***************************************************************************)
(* The claims.                                                              *)
(***************************************************************************)

\* C1: once timer_active is False (end_of_day or close_app has run) and until a
\* start sets it again, the queued trigger callback show_worklog_window never
\* runs: every run of show_worklog_window finds the timer active.
C1_NoTriggerAfterStop == [][ShowWorklogWindow => timer_active]_vars

\* C2: at every moment at most one thread runs timer_loop, and exactly one
\* while the process runs with the timer active.
C2_OneWorker ==
    /\ Len(workers) <= 1
    /\ (alive /\ timer_active) => Len(workers) = 1

\* the instants whose minute-of-hour is m and whose second and sub-second are 0
Boundaries(m) == {At(0, h, m, 0) : h \in 0 .. 48}

\* C3: for every now and every trigger minute, the next_hour timer_loop
\* computes is the earliest boundary strictly after now, in the current hour
\* if that boundary is still ahead and in the next hour otherwise, and the
\* wait is more than 0 and at most one hour.
C3_NextTrigger ==
    (call.op = "timer_loop" /\ call.done) =>
        LET t == call.t
            n == call.next_hour
            thisHour == t - (t % OneHour)
        IN  /\ n \in Boundaries(call.m)
            /\ n > t
            /\ \A b \in Boundaries(call.m) : b > t => n <= b
            /\ IF t < thisHour + call.m * OneMinute
               THEN n - (n % OneHour) = thisHour
               ELSE n - (n % OneHour) = thisHour + OneHour
            /\ call.wait_seconds = n - t
            /\ call.wait_seconds > 0
            /\ call.wait_seconds <= OneHour

\* C3's case: trigger minute 0 at 10:00:05 gives 11:00:00
C3_Witness ==
    /\ call.op = "timer_loop"
    /\ call.done
    /\ call.t = At(0, 10, 0, 5)
    /\ call.m = 0
    /\ call.next_hour = At(0, 11, 0, 0)

\* C4: a save that writes an entry adds exactly one file name to the window's
\* day folder, a name that was not there before: the first of now's minute,
\* now's minute + 1, ... that is free; every file that was there keeps its
\* content.
C4_NeverOverwrites ==
    [][files' # files =>
       \A i \in 0 .. MaxOrphans, result \in BOOLEAN, readable \in BOOLEAN :
          (/\ SaveEntry(i, result, readable, TRUE)
           /\ SaveContent(WindowObject(i), result, readable) # None) =>
              LET d == WindowObject(i).day_folder
                  before == DOMAIN files[d]
                  after == DOMAIN files'[d]
              IN  /\ before \subseteq after
                  /\ \A n \in before : files'[d][n] = files[d][n]
                  /\ \E k \in 0 .. Cardinality(before) :
                        /\ after \ before = {EntryFilename(now + k * OneMinute)}
                        /\ \A j \in 0 .. k - 1 :
                              EntryFilename(now + j * OneMinute) \in before
      ]_vars

\* C4's case: a typed entry was saved in a minute whose name was taken, and
\* carries the next minute
C4_Witness ==
    \E d \in DOMAIN files :
        /\ EntryFilename(now) \in DOMAIN files[d]
        /\ EntryFilename(now + OneMinute) \in DOMAIN files[d]
        /\ files[d][EntryFilename(now + OneMinute)] = <<97>>

\* the folders of a listing
Directories(r) == {name \in DOMAIN r : r[name] = "dir"}

\* the listing a call of start_new_day's resolution found, and the date it read
CallPre(c) == call.listings[c]
CallToday == FormatDate(call.t)

\* C5: when folders for today exist, start_new_day adopts the one with the
\* highest sequence number, which is the lexicographically greatest name, and
\* creates nothing; the same at a second call (a restart).
C5_AdoptsHighest ==
    call.op = "start_new_day" =>
        \A c \in 1 .. Len(call.returned) :
            ExistingFolders(CallPre(c), CallToday) # {} =>
                /\ call.listings[c + 1] = CallPre(c)
                /\ call.returned[c] \in Directories(CallPre(c))
                /\ \A other \in Directories(CallPre(c)) :
                      StartsWith(other, CallToday) =>
                          other = call.returned[c]
                              \/ LexLess(other, call.returned[c])
                /\ \E n \in 1 .. MaxSeq + 1 :
                      /\ call.returned[c] = FolderName(CallToday, n)
                      /\ \A k \in n + 1 .. MaxSeq + 1 :
                            FolderName(CallToday, k)
                                \notin Directories(CallPre(c))

\* C5's case: .001 and .002 exist and .002 is adopted
C5_Witness ==
    /\ call.op = "start_new_day"
    /\ Len(call.returned) >= 1
    /\ Directories(CallPre(1)) =
           {FolderName(CallToday, 1), FolderName(CallToday, 2)}
    /\ call.returned[1] = FolderName(CallToday, 2)

\* C6 as claimed: when no folder for today exists, start_new_day creates the
\* folder <today>.001 and adopts it.
C6_CreatesFirst ==
    (/\ call.op = "start_new_day"
     /\ Len(call.returned) >= 1
     /\ ExistingFolders(CallPre(1), CallToday) = {}) =>
        /\ call.returned[1] = FolderName(CallToday, 1)
        /\ call.returned[1] \in Directories(call.listings[2])

\* C6 as amended: when no folder for today exists, start_new_day creates and
\* adopts <today>.NNN for the lowest number NNN >= 1 whose name no entry of
\* the worklog folder has, and changes nothing else in the listing.
C6_CreatesNextUnused ==
    (/\ call.op = "start_new_day"
     /\ Len(call.returned) >= 1
     /\ ExistingFolders(CallPre(1), CallToday) = {}) =>
        \E n \in 1 .. MaxSeq + 1 :
            /\ call.returned[1] = FolderName(CallToday, n)
            /\ \A k \in 1 .. n - 1 : FolderName(CallToday, k) \in DOMAIN CallPre(1)
            /\ FolderName(CallToday, n) \notin DOMAIN CallPre(1)
            /\ DOMAIN call.listings[2] =
                   (DOMAIN CallPre(1)) \cup {FolderName(CallToday, n)}
            /\ call.listings[2][FolderName(CallToday, n)] = "dir"
            /\ \A name \in DOMAIN CallPre(1) :
                  call.listings[2][name] = CallPre(1)[name]

\* C6's case: no folder for today, the name <today>.001 taken by a file, and
\* <today>.002 created
C6_Witness ==
    /\ call.op = "start_new_day"
    /\ Len(call.returned) >= 1
    /\ ExistingFolders(CallPre(1), CallToday) = {}
    /\ call.returned[1] = FolderName(CallToday, 2)
    /\ call.returned[1] \in Directories(call.listings[2])

\* C7: a second call of start_new_day on the same date, nothing created in
\* between, returns the folder the first call returned and creates nothing.
C7_Idempotent ==
    (call.op = "start_new_day" /\ Len(call.returned) = 2) =>
        /\ call.returned[2] = call.returned[1]
        /\ call.listings[3] = call.listings[2]

\* C7's case: two calls, the first of which created the folder
C7_Witness ==
    /\ call.op = "start_new_day"
    /\ Len(call.returned) = 2
    /\ call.listings[2] # call.listings[1]

\* the entry files of the folder get_last_entry was called on
CallEntries ==
    IF LastFolder \in DOMAIN call.r
    THEN {n \in DOMAIN call.f[LastFolder] : EndsWith(n, HourliesSuffix)}
    ELSE {}

C9_EntriesPersist ==
    [][/\ \A name \in DOMAIN root :
             name \in DOMAIN root' /\ root'[name] = root[name]
       /\ \A d \in DOMAIN files :
             /\ d \in DOMAIN files'
             /\ \A n \in DOMAIN files[d] :
                   n \in DOMAIN files'[d] /\ files'[d][n] = files[d][n]
      ]_vars

\* C9's case: a folder holds a typed entry that a save wrote, beside another
\* file, and the program has gone on to open an entry window again
C9_Witness ==
    /\ alive
    /\ worklog_window.window
    /\ \E d \in DOMAIN files :
          /\ Cardinality(DOMAIN files[d]) >= 2
          /\ \E n \in DOMAIN files[d] : files[d][n] = <<97>>

\* C10: a thread that wakes with the timer active, and so goes on to hand a
\* trigger to the foreground, wakes when the wall clock has reached the
\* boundary it slept for, and no boundary gets a second trigger.
C10_OncePerBoundary ==
    [][\A w \in 1 .. MaxWorkers :
          /\ (TimerLoopWake(w) /\ timer_active) => now >= workers[w].next_hour
          /\ TimerLoopAfter(w) => workers[w].next_hour \notin fired
      ]_vars

\* C11: start_timer leaves the scheduler running; called on an idle scheduler
\* it adds exactly one thread at the head of the loop, called on a running one
\* it leaves the threads as they were.
C11_StartOnce ==
    call.done =>
        /\ timer_active
        /\ call.timer_active => workers = call.workers
        /\ ~call.timer_active => workers = Append(call.workers, NewThread)

\* start_timer has returned on a scheduler that was running with a thread
\* asleep
C11_Witness ==
    /\ call.done
    /\ call.timer_active
    /\ Len(call.workers) = 1
    /\ call.workers[1].pc = "sleep"

\* C12: a thread that was running when end_of_day stopped the timer leaves the
\* loop without firing.  start_timer runs only on a stopped timer and appends
\* its thread, so every thread but the newest has been through a stop; such a
\* thread never passes the test of line 354 on its way to root.after.
C12_StoppedWorkersExit ==
    [][\A w \in 1 .. MaxWorkers :
          w < Len(workers) =>
              ~(TimerLoopWake(w) /\ workers'[w].pc = "after")
      ]_vars

\* C13: no step of a timer thread changes the windows, the day folder
\* reference or the store; a trigger is one more call queued for the event
\* loop.  Every change of windows or store is a step of a foreground handler,
\* and the event loop runs these one at a time.
C13_WorkerOnlyQueues ==
    [][\A w \in 1 .. MaxWorkers :
          /\ (TimerLoopSleep(w) \/ TimerLoopWake(w) \/ TimerLoopAfter(w)) =>
                 UNCHANGED <<root, files, day_folder, worklog_window, orphans>>
          /\ TimerLoopAfter(w) => pending' = pending + 1
      ]_vars

\* a thread has queued a trigger and the event loop has not yet run it: the
\* entry window is still closed
C13_Witness ==
    /\ pending > 0
    /\ fired # {}
    /\ ~worklog_window.window

IsPrefix(s, t) == Len(s) <= Len(t) /\ SubSeq(t, 1, Len(s)) = s

\* C14: a save whose write fails leaves the entry window open with its text,
\* does not run the completion callback (the application and its timer stay
\* as they were), keeps every file that existed with its content, and leaves
\* behind at most one new file: the partial one, under the name the save
\* resolved, holding a proper prefix of the content.
C14_FailedSaveKeepsAll ==
    [][files' # files =>
       \A i \in 0 .. MaxOrphans, result \in BOOLEAN, readable \in BOOLEAN :
          (/\ SaveEntry(i, result, readable, FALSE)
           /\ SaveContent(WindowObject(i), result, readable) # None) =>
              LET folder == WindowObject(i).day_folder
                  content ==
                      WriteText(SaveContent(WindowObject(i), result,
                                            readable)[1], LineSep)
                  before == MakeDirsFiles(root, files, folder)
                  filename == SaveFilename(DOMAIN before[folder], now)
              IN  /\ UNCHANGED <<worklog_window, orphans>>
                  /\ UNCHANGED <<alive, timer_active, day_folder, pending>>
                  /\ \A d \in DOMAIN files :
                        /\ d \in DOMAIN files'
                        /\ \A n \in DOMAIN files[d] :
                              /\ n \in DOMAIN files'[d]
                              /\ files'[d][n] = files[d][n]
                  /\ \A d \in DOMAIN files' :
                        \A n \in DOMAIN files'[d] :
                            (d \notin DOMAIN files \/ n \notin DOMAIN files[d]) =>
                                /\ d = folder
                                /\ n = filename
                                /\ IsPrefix(files'[d][n], content)
                                /\ files'[d][n] # content
      ]_vars

\* a failed write has left an empty partial file in the folder of the entry
\* window, which is still open with the text that was to be saved
C14_Witness ==
    /\ worklog_window.window
    /\ Strip(worklog_window.text) # <<>>
    /\ worklog_window.day_folder \in DOMAIN files
    /\ \E n \in DOMAIN files[worklog_window.day_folder] :
          files[worklog_window.day_folder][n] = <<>>

\* every .hourlies file of the store has content
AllEntriesNonEmpty ==
    \A d \in DOMAIN files :
        \A n \in HourliesFiles(files, d) : files[d][n] # <<>>

\* the answers save_entry asks for: "Use same as last hour?" is asked, and the
\* last entry read, only when the text is blank
Answers(blank) == IF blank THEN BOOLEAN ELSE {FALSE}

\* what C15 says of one step of save_entry: a successful save writes content
\* that is not empty; a submission of blank text that is declined, or finds no
\* previous entry, changes neither the store nor the windows; one that is
\* accepted and finds a previous entry saves that entry's content.
SubmissionRule ==
    ~UNCHANGED <<root, files, worklog_window, orphans>> =>
    \A i \in OpenWindows :
        LET w == WindowObject(i)
            blank == Strip(w.text) = <<>>
            before == MakeDirsFiles(root, files, w.day_folder)
            filename == SaveFilename(DOMAIN before[w.day_folder], now)
        IN  \A result \in Answers(blank), readable \in Answers(blank) :
                LET last_entry ==
                        GetLastEntry(root, files, w.day_folder, readable)
                IN  IF blank /\ (~result \/ ~Truthy(last_entry))
                    THEN \A written \in BOOLEAN :
                             SaveEntry(i, result, readable, written) =>
                                 UNCHANGED <<root, files, worklog_window,
                                             orphans>>
                    ELSE SaveEntry(i, result, readable, TRUE) =>
                             /\ files'[w.day_folder][filename] # <<>>
                             /\ blank =>
                                   files'[w.day_folder][filename]
                                       = WriteText(last_entry[1], LineSep)

\* C15 as stated: the rule for submissions, and no entry file of the store is
\* ever empty.
C15_NoEmptyEntryFile == [][SubmissionRule /\ AllEntriesNonEmpty']_vars

\* C15: the rule for submissions; the entry files written by successful saves
\* are not empty (a write that fails can leave an empty file behind).
C15_NoEmptyEntrySaved == [][SubmissionRule]_vars

\* a blank submission has been saved as a copy of the previous entry: two
\* files of one folder hold the same content, which is not the typed text
C15_Witness ==
    \E d \in DOMAIN files :
        \E n1 \in HourliesFiles(files, d), n2 \in HourliesFiles(files, d) :
            /\ n1 # n2
            /\ files[d][n1] = files[d][n2]
            /\ files[d][n1] # <<>>
            /\ \A txt \in TypedTexts : files[d][n1] # Strip(txt)

\* the folders a call of start_new_day's resolution created
CallCreated(c) == Directories(call.listings[c + 1]) \ Directories(CallPre(c))

\* C16: a call of start_new_day deletes no folder; it creates a folder when
\* no folder for today exists, and also when a folder for today exists and
\* the process tracks none yet, which is the first call after the start.
C16_FolderLifecycle ==
    call.op = "start_new_day" =>
        /\ \A c \in 1 .. Len(call.returned) :
              /\ Directories(CallPre(c)) \subseteq
                     Directories(call.listings[c + 1])
              /\ ExistingFolders(CallPre(c), CallToday) = {} =>
                     CallCreated(c) # {}
        /\ (/\ Len(call.returned) >= 1
            /\ ExistingFolders(CallPre(1), CallToday) # {}) =>
               CallCreated(1) # {}

\* C17: the file a successful save wrote holds exactly the content passed to
\* the write, and reading it back gives that content.
C17_RoundTrip ==
    (call.op = "round_trip" /\ call.done) =>
        /\ call.bytes = call.content
        /\ call.read = call.content

\* C18: right after a successful save the name written is lexicographically
\* greater than every entry name the folder held before, and get_last_entry
\* returns the content that was saved.
C18_SaveOrder ==
    (call.op = "saves" /\ call.saved # None) =>
        /\ \A n \in call.before :
              EndsWith(n, HourliesSuffix) => LexLess(n, call.name)
        /\ GetLastEntry(OrderRoot, call.f, LastFolder, TRUE) = call.saved

\* a step in which the entry window i is saved and its file written
SavesFrom(i) ==
    \E result \in BOOLEAN, readable \in BOOLEAN :
        /\ SaveEntry(i, result, readable, TRUE)
        /\ SaveContent(WindowObject(i), result, readable) # None

\* C19: a save that writes an entry is made from a window bound to the folder
\* self.day_folder refers to at that moment, and no more than one entry window
\* is open at any time.
C19_SavesToCurrentFolder ==
    [][/\ files' # files =>
             \A i \in 0 .. MaxOrphans :
                 SavesFrom(i) => WindowObject(i).day_folder = day_folder
       /\ Cardinality(OpenWindows') <= 1
      ]_vars

====
